---- MODULE Spec2Model ----
(***************************************************************************)
(* Model of the json2struct procedural macro: the DSL parser (parser.rs),  *)
(* the struct generator (generator.rs) and the macro entry point (lib.rs). *)
(*                                                                         *)
(* Text is a sequence of one-character strings.  An identifier given in    *)
(* the invocation (the struct name, a flag name, a derive name) is one     *)
(* indivisible chunk of text.  A token stream is a sequence of token trees *)
(* as syn sees them: Ident, Punct, Lit and delimited Group.                *)
(***************************************************************************)
EXTENDS Integers, Sequences, FiniteSets, TLC

\* written: how the invocation was written (kept to state properties of the
\* parser against); input: its token stream; the rest is the macro's state.
VARIABLES written, input, pc, parsed, json_text, decoded, main_struct, all_structs,
          output

vars == <<written, input, pc, parsed, json_text, decoded, main_struct, all_structs,
          output>>

(***************************************************************************)
(* Bounds of the explored inputs.                                          *)
(***************************************************************************)
MaxFlags == 2

MaxKeyLen == 2

MaxNodes == 3

(***************************************************************************)
(* Characters.  U0130 is LATIN CAPITAL LETTER I WITH DOT ABOVE, U0307 is   *)
(* COMBINING DOT ABOVE.                                                    *)
(***************************************************************************)
CharOrder == <<"-", "1", "A", "B", "I", "_", "a", "b", "i", "x", "U0130", "U0307">>

Letters == {"A", "B", "I", "a", "b", "i", "x", "U0130"}

Digits == {"1"}

Separators == {"_", "-"}

\* char::is_alphanumeric
is_alphanumeric(c) == c \in Letters \cup Digits

\* char::is_uppercase
is_uppercase(c) == c \in {"A", "B", "I", "U0130"}

\* char::to_lowercase, which may yield more than one character
char_to_lowercase(c) ==
    CASE c = "A" -> <<"a">>
      [] c = "B" -> <<"b">>
      [] c = "I" -> <<"i">>
      [] c = "U0130" -> <<"i", "U0307">>
      [] OTHER -> <<c>>

\* char::to_uppercase on the characters of the model (one character each)
char_to_uppercase(c) ==
    CASE c = "a" -> "A"
      [] c = "b" -> "B"
      [] c = "i" -> "I"
      [] OTHER -> c

RECURSIVE to_lowercase(_)
\* String::to_lowercase
to_lowercase(s) ==
    IF s = <<>> THEN <<>> ELSE char_to_lowercase(Head(s)) \o to_lowercase(Tail(s))

\* the closure of sanitize_identifier: |c| if c.is_alphanumeric() { c } else { '_' }
replace_non_alphanumeric(s) ==
    [i \in 1..Len(s) |-> IF is_alphanumeric(s[i]) THEN s[i] ELSE "_"]

\* generator.rs sanitize_identifier
sanitize_identifier(name) == to_lowercase(replace_non_alphanumeric(name))

RECURSIVE scan_to_pascal(_, _, _)
\* inflections' to_pascal_case: separators are dropped, the character after a
\* separator (and the first one) is upper-cased, a character after an
\* upper-case one is lower-cased.
scan_to_pascal(s, upper_next, last_upper) ==
    IF s = <<>> THEN <<>>
    ELSE LET c == Head(s) IN
         IF c \in Separators THEN scan_to_pascal(Tail(s), TRUE, FALSE)
         ELSE IF upper_next
              THEN <<char_to_uppercase(c)>> \o scan_to_pascal(Tail(s), FALSE, is_uppercase(c))
         ELSE IF last_upper
              THEN char_to_lowercase(c) \o scan_to_pascal(Tail(s), FALSE, is_uppercase(c))
         ELSE <<c>> \o scan_to_pascal(Tail(s), FALSE, is_uppercase(c))

to_pascal_case(key) == scan_to_pascal(key, TRUE, FALSE)

\* XID_Start or '_' ; the invocation's own identifiers are valid by construction
is_ident_start(c) == c \in Letters \cup {"_", "User"}

is_ident_continue(c) == c \in Letters \cup Digits \cup {"_", "U0307", "User"}

\* proc_macro2's validation in Ident::new, reached through format_ident!
valid_ident(s) ==
    /\ s # <<>>
    /\ is_ident_start(s[1])
    /\ \A i \in 1..Len(s) : is_ident_continue(s[i])

(***************************************************************************)
(* Token trees.                                                            *)
(***************************************************************************)
Ident(s) == [t |-> "Ident", s |-> s]

Punct(s) == [t |-> "Punct", s |-> s]

Lit(k, v) == [t |-> "Lit", k |-> k, v |-> v]

Group(d, body) == [t |-> "Group", d |-> d, body |-> body]

IsIdent(toks, i) == i <= Len(toks) /\ toks[i].t = "Ident"

IsPunct(toks, i, s) == i <= Len(toks) /\ toks[i].t = "Punct" /\ toks[i].s = s

IsLit(toks, i) == i <= Len(toks) /\ toks[i].t = "Lit"

IsGroup(toks, i, d) == i <= Len(toks) /\ toks[i].t = "Group" /\ toks[i].d = d

(***************************************************************************)
(* parser.rs: JsonValue, JsonMacroFlags, JsonMacroInput                    *)
(***************************************************************************)
Str(s) == [k |-> "Str", s |-> s]

Number(n) == [k |-> "Number", n |-> n]

Boolean(b) == [k |-> "Boolean", b |-> b]

Null == [k |-> "Null"]

Array(a) == [k |-> "Array", a |-> a]

Object(o) == [k |-> "Object", o |-> o]

\* #[derive(Default)] on JsonMacroFlags: every bool false, the Option None,
\* the Vec empty
JsonMacroFlags_default ==
    [debug |-> FALSE, rename_all |-> "None", store_json_value |-> FALSE,
     use_serde_alias |-> FALSE, custom_derives |-> <<>>]

\* impl Display for RenameStyle
RenameStyle_to_string(style) ==
    CASE style = "Camel" -> "camelCase"
      [] style = "Snake" -> "snake_case"
      [] style = "Pascal" -> "PascalCase"
      [] OTHER -> "None"

\* LitInt/LitFloat::base10_parse::<f64>: the literal's digits as an f64; a
\* literal beyond the f64 range parses to infinity
base10_parse_f64(v) ==
    CASE v = <<"0">> -> "0.0"
      [] v = <<"1">> -> "1.0"
      [] v = <<"1.0">> -> "1.0"
      [] v = <<"1e999">> -> "inf"
      [] OTHER -> "1.0"

RECURSIVE parse_derives(_, _, _)
\* content.parse_terminated(Ident::parse, Token![,])
parse_derives(c, i, acc) ==
    IF i > Len(c) THEN [ok |-> TRUE, derives |-> acc]
    ELSE IF ~IsIdent(c, i) THEN [ok |-> FALSE, derives |-> acc]
    ELSE IF i = Len(c) THEN [ok |-> TRUE, derives |-> Append(acc, c[i].s)]
    ELSE IF ~IsPunct(c, i + 1, ",") THEN [ok |-> FALSE, derives |-> acc]
    ELSE parse_derives(c, i + 2, Append(acc, c[i].s))

RECURSIVE parse_flags(_, _, _)
\* the `while input.peek(Token![@])` loop of JsonMacroInput::parse
parse_flags(toks, i, flags) ==
    IF ~IsPunct(toks, i, "@") THEN [ok |-> TRUE, flags |-> flags, next |-> i]
    ELSE IF ~IsIdent(toks, i + 1) THEN [ok |-> FALSE, flags |-> flags, next |-> i]
    ELSE LET flag_name == toks[i + 1].s IN
         CASE flag_name = "debug" ->
                parse_flags(toks, i + 2, [flags EXCEPT !.debug = TRUE])
           [] flag_name = "store_json" ->
                parse_flags(toks, i + 2, [flags EXCEPT !.store_json_value = TRUE])
           [] flag_name = "no_alias" ->
                parse_flags(toks, i + 2, [flags EXCEPT !.use_serde_alias = FALSE])
           [] flag_name = "camel" ->
                parse_flags(toks, i + 2, [flags EXCEPT !.rename_all = "Camel"])
           [] flag_name = "snake" ->
                parse_flags(toks, i + 2, [flags EXCEPT !.rename_all = "Snake"])
           [] flag_name = "pascal" ->
                parse_flags(toks, i + 2, [flags EXCEPT !.rename_all = "Pascal"])
           [] flag_name = "derive" ->
                IF IsGroup(toks, i + 2, "Paren")
                THEN LET d == parse_derives(toks[i + 2].body, 1, <<>>) IN
                     IF d.ok
                     THEN parse_flags(toks, i + 3,
                              [flags EXCEPT !.custom_derives = @ \o d.derives])
                     ELSE [ok |-> FALSE, flags |-> flags, next |-> i]
                ELSE [ok |-> FALSE, flags |-> flags, next |-> i]
           [] OTHER -> [ok |-> FALSE, flags |-> flags, next |-> i]

RECURSIVE JsonStruct_entries(_, _, _)
RECURSIVE parse_array(_, _, _)
RECURSIVE parse_json_value(_, _)
RECURSIVE JsonStruct_parse(_, _)

\* the `while !content.is_empty()` loop of JsonStruct::parse
JsonStruct_entries(c, i, entries) ==
    IF i > Len(c) THEN [ok |-> TRUE, entries |-> entries]
    ELSE IF ~IsLit(c, i) THEN [ok |-> FALSE, entries |-> entries]
    ELSE IF c[i].k # "Str" THEN [ok |-> FALSE, entries |-> entries]
    ELSE IF ~IsPunct(c, i + 1, ":") THEN [ok |-> FALSE, entries |-> entries]
    ELSE LET value == parse_json_value(c, i + 2) IN
         IF ~value.ok THEN [ok |-> FALSE, entries |-> entries]
         ELSE LET after == IF IsPunct(c, value.next, ",") THEN value.next + 1
                           ELSE value.next
              IN JsonStruct_entries(c, after, Append(entries, <<c[i].v, value.v>>))

\* JsonStruct::parse: one brace group, then its entries
JsonStruct_parse(toks, i) ==
    IF ~IsGroup(toks, i, "Brace") THEN [ok |-> FALSE, entries |-> <<>>, next |-> i]
    ELSE LET r == JsonStruct_entries(toks[i].body, 1, <<>>) IN
         [ok |-> r.ok, entries |-> r.entries, next |-> i + 1]

\* the array loop of parse_json_value
parse_array(c, i, array) ==
    IF i > Len(c) THEN [ok |-> TRUE, array |-> array]
    ELSE LET value == parse_json_value(c, i) IN
         IF ~value.ok THEN [ok |-> FALSE, array |-> array]
         ELSE LET after == IF IsPunct(c, value.next, ",") THEN value.next + 1
                           ELSE value.next
              IN parse_array(c, after, Append(array, value.v))

parse_json_value(toks, i) ==
    IF IsGroup(toks, i, "Bracket")
    THEN LET r == parse_array(toks[i].body, 1, <<>>) IN
         [ok |-> r.ok, v |-> Array(r.array), next |-> i + 1]
    ELSE IF IsGroup(toks, i, "Brace")
    THEN LET nested == JsonStruct_parse(toks, i) IN
         [ok |-> nested.ok, v |-> Object(nested.entries), next |-> i + 1]
    ELSE IF ~IsLit(toks, i) THEN [ok |-> FALSE, v |-> Null, next |-> i]
    ELSE CASE toks[i].k = "Str" -> [ok |-> TRUE, v |-> Str(toks[i].v), next |-> i + 1]
           [] toks[i].k = "Int" ->
                [ok |-> TRUE, v |-> Number(base10_parse_f64(toks[i].v)), next |-> i + 1]
           [] toks[i].k = "Float" ->
                [ok |-> TRUE, v |-> Number(base10_parse_f64(toks[i].v)), next |-> i + 1]
           [] toks[i].k = "Bool" ->
                [ok |-> TRUE, v |-> Boolean(toks[i].v = <<"true">>), next |-> i + 1]
           [] OTHER -> [ok |-> FALSE, v |-> Null, next |-> i]

NoMacroInput == [struct_name |-> "", flags |-> JsonMacroFlags_default, content |-> <<>>]

\* JsonMacroInput::parse, run by parse_macro_input!, which also rejects any
\* token left unconsumed in the stream or in a group
JsonMacroInput_parse(toks) ==
    IF ~IsIdent(toks, 1) THEN [ok |-> FALSE, value |-> NoMacroInput]
    ELSE LET f == parse_flags(toks, 2, JsonMacroFlags_default) IN
         IF ~f.ok \/ ~IsGroup(toks, f.next, "Brace")
         THEN [ok |-> FALSE, value |-> NoMacroInput]
         ELSE LET content == toks[f.next].body
                  json_struct == JsonStruct_parse(content, 1)
              IN IF /\ json_struct.ok
                    /\ json_struct.next > Len(content)
                    /\ f.next = Len(toks)
                 THEN [ok |-> TRUE,
                       value |-> [struct_name |-> toks[1].s, flags |-> f.flags,
                                  content |-> json_struct.entries]]
                 ELSE [ok |-> FALSE, value |-> NoMacroInput]

(***************************************************************************)
(* generator.rs                                                            *)
(***************************************************************************)
FieldType(k, name) == [k |-> k, name |-> name]

\* infer_array_type, had it looked at the last element instead of the first
infer_array_type_last(arr) ==
    IF arr = <<>> THEN "::serde_json::Value"
    ELSE CASE arr[Len(arr)].k = "Str" -> "String"
           [] arr[Len(arr)].k = "Number" -> "f64"
           [] arr[Len(arr)].k = "Boolean" -> "bool"
           [] OTHER -> "::serde_json::Value"

\* infer_array_type: the element type, from the first element only
infer_array_type(arr) ==
    IF arr = <<>> THEN "::serde_json::Value"
    ELSE CASE arr[1].k = "Str" -> "String"
           [] arr[1].k = "Number" -> "f64"
           [] arr[1].k = "Boolean" -> "bool"
           [] OTHER -> "::serde_json::Value"

\* the derives vector built at the top of generate_structs
base_derives(flags) ==
    <<"::std::clone::Clone">>
        \o (IF flags.debug THEN <<"::std::fmt::Debug">> ELSE <<>>)
        \o flags.custom_derives

\* nested_struct_name, had it used the root struct's name instead of base_name
nested_struct_name_root(base_name, key) == <<base_name[1]>> \o to_pascal_case(key)

\* the name given to the struct generated for a nested object
nested_struct_name(base_name, key) == base_name \o to_pascal_case(key)

\* the `field` token stream: with or without #[serde(alias = #key)]
make_field(flags, key, field_name, field_type) ==
    [field_name |-> field_name, field_type |-> field_type,
     alias |-> IF flags.use_serde_alias THEN <<key>> ELSE <<>>]

\* the `main_struct` token stream
make_struct(flags, base_name, fields) ==
    [name |-> base_name,
     derives |-> base_derives(flags) \o <<"::serde::Deserialize", "::serde::Serialize">>,
     rename_all |-> RenameStyle_to_string(flags.rename_all),
     fields |-> fields]

NoStruct == [name |-> <<>>, derives |-> <<>>, rename_all |-> "None", fields |-> <<>>]

\* the accumulation, had the nested struct been pushed before its own nested ones
extend_all_structs_parent_first(structs, nested_structs, nested_struct) ==
    (structs \o <<nested_struct>>) \o nested_structs

\* all_structs.extend(nested_structs); all_structs.push(nested_struct.clone());
extend_all_structs(structs, nested_structs, nested_struct) ==
    (structs \o nested_structs) \o <<nested_struct>>

RECURSIVE generate_fields(_, _, _, _, _, _)
RECURSIVE generate_structs(_, _, _)

\* the `for (key, value) in &json_struct.content.entries` loop; ok is FALSE
\* when format_ident! panics
generate_fields(flags, entries, i, base_name, fields, structs) ==
    IF i > Len(entries) THEN [ok |-> TRUE, fields |-> fields, all_structs |-> structs]
    ELSE LET key == entries[i][1]
             value == entries[i][2]
             field_name == sanitize_identifier(key)
         IN IF ~valid_ident(field_name)
            THEN [ok |-> FALSE, fields |-> fields, all_structs |-> structs]
            ELSE CASE value.k = "Str" ->
                        generate_fields(flags, entries, i + 1, base_name,
                            Append(fields, make_field(flags, key, field_name,
                                                      FieldType("String", <<>>))),
                            structs)
                   [] value.k = "Number" ->
                        generate_fields(flags, entries, i + 1, base_name,
                            Append(fields, make_field(flags, key, field_name,
                                                      FieldType("f64", <<>>))),
                            structs)
                   [] value.k = "Boolean" ->
                        generate_fields(flags, entries, i + 1, base_name,
                            Append(fields, make_field(flags, key, field_name,
                                                      FieldType("bool", <<>>))),
                            structs)
                   [] value.k = "Array" ->
                        generate_fields(flags, entries, i + 1, base_name,
                            Append(fields, make_field(flags, key, field_name,
                                       FieldType("Vec", <<infer_array_type(value.a)>>))),
                            structs)
                   [] value.k = "Object" ->
                        LET nested_name == nested_struct_name(base_name, key) IN
                        IF ~valid_ident(nested_name)
                        THEN [ok |-> FALSE, fields |-> fields, all_structs |-> structs]
                        ELSE LET nested == generate_structs(flags, value.o, nested_name) IN
                             IF ~nested.ok
                             THEN [ok |-> FALSE, fields |-> fields, all_structs |-> structs]
                             ELSE generate_fields(flags, entries, i + 1, base_name,
                                      Append(fields, make_field(flags, key, field_name,
                                                 FieldType("Struct", nested_name))),
                                      extend_all_structs(structs, nested.all_structs,
                                                         nested.main_struct))
                   [] OTHER ->
                        generate_fields(flags, entries, i + 1, base_name,
                            Append(fields, make_field(flags, key, field_name,
                                       FieldType("Option", <<"::serde_json::Value">>))),
                            structs)

generate_structs(flags, entries, base_name) ==
    LET r == generate_fields(flags, entries, 1, base_name, <<>>, <<>>) IN
    [ok |-> r.ok,
     main_struct |-> IF r.ok THEN make_struct(flags, base_name, r.fields) ELSE NoStruct,
     all_structs |-> r.all_structs]

(***************************************************************************)
(* The embedded constant: JsonValue::to_serde_value, serde_json's Map      *)
(* (a BTreeMap), serde_json::to_string and serde_json::from_str.           *)
(***************************************************************************)
Rank(c) == CHOOSE i \in 1..Len(CharOrder) : CharOrder[i] = c

RECURSIVE str_less(_, _)
\* the order of String keys in a BTreeMap
str_less(a, b) ==
    IF b = <<>> THEN FALSE
    ELSE IF a = <<>> THEN TRUE
    ELSE IF Head(a) = Head(b) THEN str_less(Tail(a), Tail(b))
    ELSE Rank(Head(a)) < Rank(Head(b))

RECURSIVE map_insert(_, _, _)
\* Map::insert: keys kept sorted, a value inserted for a present key replaces it
map_insert(m, key, v) ==
    IF m = <<>> THEN <<<<key, v>>>>
    ELSE IF m[1][1] = key THEN <<<<key, v>>>> \o Tail(m)
    ELSE IF str_less(key, m[1][1]) THEN <<<<key, v>>>> \o m
    ELSE <<m[1]>> \o map_insert(Tail(m), key, v)

\* serde_json::Number::from_f64(n).unwrap_or(Number::from(0))
number_from_f64(n) == IF n = "inf" THEN "0" ELSE n

RECURSIVE to_serde_value(_)
RECURSIVE collect_map(_, _, _)
RECURSIVE collect_array(_)

\* .map(|(k, v)| (k.clone(), v.to_serde_value())).collect() into a Map
collect_map(entries, i, m) ==
    IF i > Len(entries) THEN m
    ELSE collect_map(entries, i + 1,
                     map_insert(m, entries[i][1], to_serde_value(entries[i][2])))

collect_array(arr) ==
    IF arr = <<>> THEN <<>>
    ELSE <<to_serde_value(Head(arr))>> \o collect_array(Tail(arr))

to_serde_value(v) ==
    CASE v.k = "Str" -> [k |-> "String", s |-> v.s]
      [] v.k = "Number" -> [k |-> "Number", n |-> number_from_f64(v.n)]
      [] v.k = "Boolean" -> [k |-> "Bool", b |-> v.b]
      [] v.k = "Array" -> [k |-> "Array", a |-> collect_array(v.a)]
      [] v.k = "Object" -> [k |-> "Object", m |-> collect_map(v.o, 1, <<>>)]
      [] OTHER -> [k |-> "Null"]

\* lib.rs: the root entries collected into serde_json::Value::Object
root_serde_value(entries) == [k |-> "Object", m |-> collect_map(entries, 1, <<>>)]

Txt(t, s) == [t |-> t, s |-> s]

RECURSIVE to_string(_)
RECURSIVE members_to_string(_, _)
RECURSIVE elements_to_string(_, _)

members_to_string(m, i) ==
    IF i > Len(m) THEN <<>>
    ELSE (IF i > 1 THEN <<Txt(",", <<>>)>> ELSE <<>>)
         \o <<Txt("str", m[i][1]), Txt(":", <<>>)>> \o to_string(m[i][2])
         \o members_to_string(m, i + 1)

elements_to_string(a, i) ==
    IF i > Len(a) THEN <<>>
    ELSE (IF i > 1 THEN <<Txt(",", <<>>)>> ELSE <<>>)
         \o to_string(a[i]) \o elements_to_string(a, i + 1)

\* serde_json::to_string: compact JSON text, here as its lexemes
to_string(v) ==
    CASE v.k = "String" -> <<Txt("str", v.s)>>
      [] v.k = "Number" -> <<Txt("num", <<v.n>>)>>
      [] v.k = "Bool" -> <<Txt(IF v.b THEN "true" ELSE "false", <<>>)>>
      [] v.k = "Array" -> <<Txt("[", <<>>)>> \o elements_to_string(v.a, 1) \o <<Txt("]", <<>>)>>
      [] v.k = "Object" -> <<Txt("{", <<>>)>> \o members_to_string(v.m, 1) \o <<Txt("}", <<>>)>>
      [] OTHER -> <<Txt("null", <<>>)>>

IsTxt(text, i, t) == i <= Len(text) /\ text[i].t = t

DecodeErr == [ok |-> FALSE, v |-> [k |-> "Null"], next |-> 0]

RECURSIVE decode_value(_, _)
RECURSIVE decode_members(_, _, _)
RECURSIVE decode_elements(_, _, _)

\* the members of an object after '{' or ','
decode_members(text, i, m) ==
    IF ~IsTxt(text, i, "str") \/ ~IsTxt(text, i + 1, ":") THEN DecodeErr
    ELSE LET r == decode_value(text, i + 2) IN
         IF ~r.ok THEN DecodeErr
         ELSE LET m2 == map_insert(m, text[i].s, r.v) IN
              IF IsTxt(text, r.next, ",") THEN decode_members(text, r.next + 1, m2)
              ELSE IF IsTxt(text, r.next, "}")
                   THEN [ok |-> TRUE, v |-> [k |-> "Object", m |-> m2], next |-> r.next + 1]
              ELSE DecodeErr

\* the elements of an array after '[' or ','
decode_elements(text, i, a) ==
    LET r == decode_value(text, i) IN
    IF ~r.ok THEN DecodeErr
    ELSE IF IsTxt(text, r.next, ",") THEN decode_elements(text, r.next + 1, Append(a, r.v))
    ELSE IF IsTxt(text, r.next, "]")
         THEN [ok |-> TRUE, v |-> [k |-> "Array", a |-> Append(a, r.v)], next |-> r.next + 1]
    ELSE DecodeErr

decode_value(text, i) ==
    IF i > Len(text) THEN DecodeErr
    ELSE CASE text[i].t = "str" -> [ok |-> TRUE, v |-> [k |-> "String", s |-> text[i].s], next |-> i + 1]
           [] text[i].t = "num" -> [ok |-> TRUE, v |-> [k |-> "Number", n |-> text[i].s[1]], next |-> i + 1]
           [] text[i].t = "true" -> [ok |-> TRUE, v |-> [k |-> "Bool", b |-> TRUE], next |-> i + 1]
           [] text[i].t = "false" -> [ok |-> TRUE, v |-> [k |-> "Bool", b |-> FALSE], next |-> i + 1]
           [] text[i].t = "null" -> [ok |-> TRUE, v |-> [k |-> "Null"], next |-> i + 1]
           [] text[i].t = "[" ->
                IF IsTxt(text, i + 1, "]")
                THEN [ok |-> TRUE, v |-> [k |-> "Array", a |-> <<>>], next |-> i + 2]
                ELSE decode_elements(text, i + 1, <<>>)
           [] text[i].t = "{" ->
                IF IsTxt(text, i + 1, "}")
                THEN [ok |-> TRUE, v |-> [k |-> "Object", m |-> <<>>], next |-> i + 2]
                ELSE decode_members(text, i + 1, <<>>)
           [] OTHER -> DecodeErr

\* serde_json::from_str::<Value>: one value, then the end of the text
from_str(text) ==
    LET r == decode_value(text, 1) IN
    IF r.ok /\ r.next = Len(text) + 1 THEN [ok |-> TRUE, v |-> r.v]
    ELSE [ok |-> FALSE, v |-> [k |-> "Null"]]

NotDecoded == [ok |-> FALSE, v |-> [k |-> "Null"]]

(***************************************************************************)
(* The invocations explored: how each is written, and its token stream.    *)
(***************************************************************************)
FlagNames ==
    {"debug", "store_json", "no_alias", "camel", "snake", "pascal", "derive(Debug)",
     "derive(PartialEq)", "derive(PartialEq,Clone)", "derive", "bogus"}

FlagTokens(f) ==
    CASE f = "derive(Debug)" ->
            <<Punct("@"), Ident("derive"), Group("Paren", <<Ident("Debug")>>)>>
      [] f = "derive(PartialEq)" ->
            <<Punct("@"), Ident("derive"), Group("Paren", <<Ident("PartialEq")>>)>>
      [] f = "derive(PartialEq,Clone)" ->
            <<Punct("@"), Ident("derive"),
              Group("Paren", <<Ident("PartialEq"), Punct(","), Ident("Clone")>>)>>
      [] OTHER -> <<Punct("@"), Ident(f)>>

RecognizedFlags == FlagNames \ {"derive", "bogus"}

RECURSIVE AllFlagTokens(_)
AllFlagTokens(flags) ==
    IF flags = <<>> THEN <<>> ELSE FlagTokens(Head(flags)) \o AllFlagTokens(Tail(flags))

FlagSeqs(n) == UNION {[1..m -> FlagNames] : m \in 0..n}

KeyChars == {"a", "b", "A", "1", "_", "-", "U0130"}

KeyStrings(n) == UNION {[1..m -> KeyChars] : m \in 0..n}

TreeKeys == {<<"a">>, <<"b">>}

Leaves == {Str(<<"x">>), Number("1.0")}

RECURSIVE EntrySeqs(_)
RECURSIVE ElemSeqs(_)
RECURSIVE Vals(_)

\* the entry sequences of at most n entries and array elements in all
EntrySeqs(n) ==
    IF n = 0 THEN {<<>>}
    ELSE {<<>>} \cup
         UNION {{<<<<k, v>>>> \o rest : k \in TreeKeys, v \in Vals(i),
                                         rest \in EntrySeqs(n - 1 - i)} : i \in 0..(n - 1)}

ElemSeqs(n) ==
    IF n = 0 THEN {<<>>}
    ELSE {<<>>} \cup
         UNION {{<<v>> \o rest : v \in Vals(i), rest \in ElemSeqs(n - 1 - i)} :
                i \in 0..(n - 1)}

Vals(n) ==
    Leaves \cup {Array(a) : a \in ElemSeqs(n)} \cup {Object(o) : o \in EntrySeqs(n)}

RECURSIVE RenderEntries(_, _, _)
RECURSIVE RenderElems(_, _, _)
RECURSIVE RenderValue(_, _)

Comma(i, n, commas) ==
    IF commas = "trailing" \/ (commas = "between" /\ i < n) THEN <<Punct(",")>> ELSE <<>>

RenderValue(v, commas) ==
    CASE v.k = "Str" -> Lit("Str", v.s)
      [] v.k = "Number" ->
            IF v.n = "inf" THEN Lit("Float", <<"1e999">>)
            ELSE IF v.n = "0.0" THEN Lit("Int", <<"0">>)
            ELSE Lit("Int", <<"1">>)
      [] v.k = "Boolean" -> Lit("Bool", IF v.b THEN <<"true">> ELSE <<"false">>)
      [] v.k = "Array" -> Group("Bracket", RenderElems(v.a, 1, commas))
      [] v.k = "Object" -> Group("Brace", RenderEntries(v.o, 1, commas))
      [] OTHER -> Ident("null")

RenderEntries(entries, i, commas) ==
    IF i > Len(entries) THEN <<>>
    ELSE <<Lit("Str", entries[i][1]), Punct(":"), RenderValue(entries[i][2], commas)>>
         \o Comma(i, Len(entries), commas) \o RenderEntries(entries, i + 1, commas)

RenderElems(a, i, commas) ==
    IF i > Len(a) THEN <<>>
    ELSE <<RenderValue(a[i], commas)>> \o Comma(i, Len(a), commas)
         \o RenderElems(a, i + 1, commas)

Written(flags, entries, commas, braces, defect) ==
    [struct_name |-> "User", flags |-> flags, entries |-> entries, commas |-> commas,
     braces |-> braces, defect |-> defect]

\* the root object, in one pair of braces or in two
RootTokens(w) ==
    LET root == Group("Brace", RenderEntries(w.entries, 1, w.commas)) IN
    IF w.braces = 2 THEN <<Group("Brace", <<root>>)>> ELSE <<root>>

Doubled(body) == <<Ident("User"), Group("Brace", <<Group("Brace", body)>>)>>

\* the token stream of an invocation; a defect replaces the root by a
\* malformed one
Tokens(w) ==
    CASE w.defect = "none" ->
            <<Ident(w.struct_name)>> \o AllFlagTokens(w.flags) \o RootTokens(w)
      [] w.defect = "key_not_string" ->
            Doubled(<<Lit("Int", <<"1">>), Punct(":"), Lit("Str", <<"x">>)>>)
      [] w.defect = "missing_colon" ->
            Doubled(<<Lit("Str", <<"a">>), Lit("Str", <<"x">>)>>)
      [] w.defect = "fat_arrow" ->
            Doubled(<<Lit("Str", <<"a">>), Punct("=>"), Lit("Str", <<"x">>)>>)
      [] w.defect = "char_literal" ->
            Doubled(<<Lit("Str", <<"a">>), Punct(":"), Lit("Char", <<"x">>)>>)
      [] w.defect = "null_value" ->
            Doubled(<<Lit("Str", <<"a">>), Punct(":"), Ident("null")>>)
      [] w.defect = "tokens_after_root" ->
            <<Ident("User"), Group("Brace", <<Group("Brace", <<>>)>>), Punct(",")>>
      [] w.defect = "tokens_after_inner_root" ->
            <<Ident("User"), Group("Brace", <<Group("Brace", <<>>), Punct(",")>>)>>
      [] w.defect = "array_root" ->
            <<Ident("User"), Group("Brace", <<Group("Bracket", <<>>)>>)>>
      [] OTHER -> <<Group("Brace", <<Group("Brace", <<>>)>>)>>

Defects ==
    {"key_not_string", "missing_colon", "fat_arrow", "char_literal", "null_value",
     "tokens_after_root", "tokens_after_inner_root", "array_root", "no_name"}

A == <<"a">>

B == <<"b">>

\* a nested object, for the invocations that vary the flags
NestedBody == <<<<A, Object(<<<<B, Str(<<"x">>)>>>>)>>>>

\* bodies the documentation and the specification name
ExampleBodies ==
    {<<<<<<"a", "_", "b">>, Object(<<>>)>>, <<A, Object(<<<<B, Object(<<>>)>>>>)>>>>,
     <<<<A, Object(<<>>)>>, <<<<"A">>, Object(<<>>)>>>>,
     <<<<A, Number("1.0")>>, <<A, Str(<<"x">>)>>>>,
     <<<<B, Number("0.0")>>, <<A, Number("inf")>>>>,
     <<<<A, Array(<<Boolean(TRUE), Number("1.0")>>)>>>>,
     <<<<A, Boolean(FALSE)>>, <<B, Str(<<>>)>>>>}

FlagFamily == {Written(f, NestedBody, "between", 2, "none") : f \in FlagSeqs(MaxFlags)}

TreeFamily ==
    {Written(<<>>, e, "between", 2, "none") : e \in EntrySeqs(MaxNodes)}

KeyFamily ==
    {Written(f, <<<<k, Str(<<"x">>)>>>>, "between", 2, "none") :
        f \in {<<>>, <<"store_json">>}, k \in KeyStrings(MaxKeyLen)}

SyntaxFamily ==
    {Written(f, e, c, b, "none") :
        f \in {<<"store_json">>},
        e \in EntrySeqs(MaxNodes - 1) \cup ExampleBodies,
        c \in {"between", "trailing", "none"}, b \in {1, 2}}
    \cup {Written(<<>>, <<>>, "between", 2, d) : d \in Defects}

Invocations == FlagFamily \cup TreeFamily \cup KeyFamily \cup SyntaxFamily

(***************************************************************************)
(* lib.rs: json2struct                                                     *)
(***************************************************************************)
Init ==
    /\ written \in Invocations
    /\ input = Tokens(written)
    /\ pc = "start"
    /\ parsed = NoMacroInput
    /\ json_text = <<>>
    /\ decoded = NotDecoded
    /\ main_struct = NoStruct
    /\ all_structs = <<>>
    /\ output = <<>>

\* parse_macro_input!(input as parser::JsonMacroInput); an error ends the
\* expansion with a compile error and no other output
Parse ==
    /\ pc = "start"
    /\ LET r == JsonMacroInput_parse(input) IN
       /\ parsed' = r.value
       /\ pc' = IF r.ok THEN "parsed" ELSE "syntax_error"
    /\ UNCHANGED <<written, input, json_text, decoded, main_struct, all_structs, output>>

\* if json_struct.flags.store_json_value { ... }
StoreJson ==
    /\ pc = "parsed"
    /\ parsed.flags.store_json_value
    /\ json_text' = to_string(root_serde_value(parsed.content))
    /\ pc' = "stored"
    /\ UNCHANGED <<written, input, parsed, decoded, main_struct, all_structs, output>>

\* generator::generate_structs(&json_struct, &json_struct.struct_name)
Generate ==
    /\ \/ pc = "stored"
       \/ pc = "parsed" /\ ~parsed.flags.store_json_value
    /\ LET r == generate_structs(parsed.flags, parsed.content, <<parsed.struct_name>>) IN
       /\ main_struct' = r.main_struct
       /\ all_structs' = IF r.ok THEN r.all_structs ELSE <<>>
       /\ pc' = IF r.ok THEN "generated" ELSE "panicked"
    /\ UNCHANGED <<written, input, parsed, json_text, decoded, output>>

\* output.extend(quote! { #main_struct #(#all_structs)* })
Emit ==
    /\ pc = "generated"
    /\ output' = <<main_struct>> \o all_structs
    /\ pc' = "emitted"
    /\ UNCHANGED <<written, input, parsed, json_text, decoded, main_struct, all_structs>>

\* the first access of the emitted LazyLock: serde_json::from_str(#serde_value_str)
LazyInit ==
    /\ pc = "emitted"
    /\ parsed.flags.store_json_value
    /\ decoded' = from_str(json_text)
    /\ pc' = "initialized"
    /\ UNCHANGED <<written, input, parsed, json_text, main_struct, all_structs, output>>

Next == Parse \/ StoreJson \/ Generate \/ Emit \/ LazyInit

Spec == Init /\ [][Next]_vars

(***************************************************************************)
(* Properties.                                                             *)
(***************************************************************************)
Generated == pc \in {"generated", "emitted", "initialized"}

ParseDone == pc # "start"

AllTypes == <<main_struct>> \o all_structs

RECURSIVE ObjectCount(_)
\* the number of Object-valued entries of an entry sequence, at any depth,
\* not counting what is inside an array
ObjectCount(entries) ==
    IF entries = <<>> THEN 0
    ELSE (IF Head(entries)[2].k = "Object" THEN 1 + ObjectCount(Head(entries)[2].o) ELSE 0)
         + ObjectCount(Tail(entries))

\* the number of definitions generated for the entries before the i-th
Before(entries, i) == ObjectCount(SubSeq(entries, 1, i - 1))

RECURSIVE Pairing(_, _, _, _)
\* each object of the value tree with the definition generated for it (def),
\* found by position in the auxiliaries, and the name the specification
\* gives it (expected: the enclosing definition's name and PascalCase(key))
Pairing(entries, def, block, expected) ==
    {[obj |-> entries, def |-> def, expected |-> expected]} \cup
    UNION {IF entries[i][2].k = "Object"
           THEN LET start == Before(entries, i)
                    n == ObjectCount(entries[i][2].o)
                IN Pairing(entries[i][2].o, block[start + n + 1],
                           SubSeq(block, start + 1, start + n),
                           def.name \o to_pascal_case(entries[i][1]))
           ELSE {} : i \in 1..Len(entries)}

WellPaired == Len(all_structs) = ObjectCount(parsed.content)

Pairs == Pairing(parsed.content, main_struct, all_structs, <<parsed.struct_name>>)

\* C1: every generated field carries an alias iff alias emission is on, which
\* it is unless @no_alias was given, and the alias is the source key verbatim.
C1_AliasUnlessNoAlias ==
    Generated =>
        /\ \A s \in 1..Len(AllTypes) : \A i \in 1..Len(AllTypes[s].fields) :
              (AllTypes[s].fields[i].alias # <<>>)
                  <=> (\A j \in 1..Len(written.flags) : written.flags[j] # "no_alias")
        /\ \A i \in 1..Len(main_struct.fields) :
              main_struct.fields[i].alias # <<>>
                  => main_struct.fields[i].alias = <<parsed.content[i][1]>>

\* C2: an invocation written as the grammar has it (a name, recognized flags,
\* the root object in ONE pair of braces, commas between entries) is accepted,
\* with that type name and those entries in order.
C2_SingleBraceRootAccepted ==
    (/\ ParseDone
     /\ written.defect = "none"
     /\ written.braces = 1
     /\ written.commas = "between"
     /\ Len(written.entries) >= 1
     /\ \A j \in 1..Len(written.flags) : written.flags[j] \in RecognizedFlags)
        => /\ pc # "syntax_error"
           /\ parsed.struct_name = written.struct_name
           /\ parsed.content = written.entries

\* C3: the definition generated for an Object-valued entry (key, entries) of
\* the object converted to the type named P is named P followed by
\* PascalCase(key), and the field refers to that name; root User with
\* {"a": {"b": "x"}} yields the auxiliary UserA.
C3_NestedNaming ==
    Generated =>
        /\ WellPaired
        /\ main_struct.name = <<written.struct_name>>
        /\ \A p \in Pairs :
              /\ p.def.name = p.expected
              /\ Len(p.def.fields) = Len(p.obj)
              /\ \A i \in 1..Len(p.obj) :
                    p.obj[i][2].k = "Object" =>
                        p.def.fields[i].field_type
                            = FieldType("Struct", p.def.name \o to_pascal_case(p.obj[i][1]))
        /\ parsed.content = NestedBody =>
              (Len(all_structs) = 1 /\ all_structs[1].name = <<"User", "A">>)

\* a generated invocation with an object nested in a nested object
C3_Witness ==
    /\ Generated
    /\ \E i \in 1..Len(parsed.content) :
          /\ parsed.content[i][2].k = "Object"
          /\ \E j \in 1..Len(parsed.content[i][2].o) :
                parsed.content[i][2].o[j][2].k = "Object"

\* the element type the specification gives an array
ExpectedElement(a) ==
    IF a = <<>> THEN "::serde_json::Value"
    ELSE IF a[1].k = "Str" THEN "String"
    ELSE IF a[1].k = "Number" THEN "f64"
    ELSE IF a[1].k = "Boolean" THEN "bool"
    ELSE "::serde_json::Value"

Capability(token) ==
    CASE token = "::std::clone::Clone" -> "Clone"
      [] token = "::std::fmt::Debug" -> "Debug"
      [] OTHER -> token

RECURSIVE Dedup(_, _)
\* s without the elements already in seen or earlier in s, order kept
Dedup(s, seen) ==
    IF s = <<>> THEN <<>>
    ELSE IF Head(s) \in seen THEN Dedup(Tail(s), seen)
    ELSE <<Head(s)>> \o Dedup(Tail(s), seen \cup {Head(s)})

\* the capabilities of a definition, before the two serde derives that end
\* every derive list
Capabilities(def) ==
    [i \in 1..(Len(def.derives) - 2) |-> Capability(def.derives[i])]

\* C5: the capability list of every definition is copyable, then debuggable
\* if @debug, then the @derive names in order, with duplicates removed.
C5_CapabilitiesDeduplicated ==
    Generated =>
        \A s \in 1..Len(AllTypes) :
            Capabilities(AllTypes[s])
                = Dedup(<<"Clone">> \o (IF parsed.flags.debug THEN <<"Debug">> ELSE <<>>)
                            \o parsed.flags.custom_derives, {})

\* C6: the names of the primary and of all auxiliary definitions are
\* pairwise distinct.
C6_NamesDistinct ==
    Generated =>
        \A s, t \in 1..Len(AllTypes) : s # t => AllTypes[s].name # AllTypes[t].name

RECURSIVE StructurallyEqual(_, _)
\* a parsed JsonValue and a decoded serde_json value hold the same data; the
\* order of an object's entries is not compared
StructurallyEqual(v, d) ==
    CASE v.k = "Str" -> d.k = "String" /\ d.s = v.s
      [] v.k = "Number" -> d.k = "Number" /\ d.n = v.n
      [] v.k = "Boolean" -> d.k = "Bool" /\ d.b = v.b
      [] v.k = "Array" ->
            /\ d.k = "Array"
            /\ Len(d.a) = Len(v.a)
            /\ \A i \in 1..Len(v.a) : StructurallyEqual(v.a[i], d.a[i])
      [] v.k = "Object" ->
            /\ d.k = "Object"
            /\ Len(d.m) = Len(v.o)
            /\ \A i \in 1..Len(v.o) : \E j \in 1..Len(d.m) :
                  d.m[j][1] = v.o[i][1] /\ StructurallyEqual(v.o[i][2], d.m[j][2])
      [] OTHER -> d.k = "Null"

\* C7: with @store_json, decoding the text of the embedded constant gives a
\* value structurally equal to the parsed root.
C7_ConstantRoundTrip ==
    pc = "initialized" =>
        decoded.ok /\ StructurallyEqual(Object(parsed.content), decoded.v)

\* C8: sanitizing a sanitized key changes nothing.
C8_SanitizeIdempotent ==
    (Generated \/ pc = "panicked") =>
        \A i \in 1..Len(parsed.content) :
            sanitize_identifier(sanitize_identifier(parsed.content[i][1]))
                = sanitize_identifier(parsed.content[i][1])

\* C9: the generator never fails on a parsed value tree, and every field name
\* is a valid identifier.
C9_GeneratorNeverFails ==
    /\ pc # "panicked"
    /\ Generated =>
          \A s \in 1..Len(AllTypes) : \A i \in 1..Len(AllTypes[s].fields) :
              valid_ident(AllTypes[s].fields[i].field_name)

RECURSIVE AdjacentEntries(_)
\* some object or array of the tree holds two or more entries/elements
AdjacentEntries(entries) ==
    \/ Len(entries) >= 2
    \/ \E i \in 1..Len(entries) :
          \/ entries[i][2].k = "Object" /\ AdjacentEntries(entries[i][2].o)
          \/ /\ entries[i][2].k = "Array"
             /\ \/ Len(entries[i][2].a) >= 2
                \/ \E j \in 1..Len(entries[i][2].a) :
                      AdjacentEntries(<<<<A, entries[i][2].a[j]>>>>)

\* C10: a trailing comma changes nothing in what is parsed, and entries or
\* elements written without a comma between them are a syntax error.
C10_CommaBetweenRequired ==
    (ParseDone /\ written.defect = "none") =>
        /\ written.commas = "trailing" =>
              JsonMacroInput_parse(Tokens([written EXCEPT !.commas = "between"]))
                  = [ok |-> pc # "syntax_error", value |-> parsed]
        /\ (written.commas = "none" /\ AdjacentEntries(written.entries)) =>
              pc = "syntax_error"

\* what identifies a definition in the output: its name and its field names
Signature(def) ==
    [name |-> def.name, fields |-> [i \in 1..Len(def.fields) |-> def.fields[i].field_name]]

RECURSIVE PostOrder(_, _)
\* the signatures of the definitions of the Object-valued entries, depth
\* first in textual order, each after everything nested inside it
PostOrder(entries, name) ==
    IF entries = <<>> THEN <<>>
    ELSE LET key == Head(entries)[1]
             value == Head(entries)[2]
             nested == name \o to_pascal_case(key)
         IN (IF value.k = "Object"
             THEN PostOrder(value.o, nested)
                      \o <<[name |-> nested,
                            fields |-> [i \in 1..Len(value.o) |->
                                           sanitize_identifier(value.o[i][1])]]>>
             ELSE <<>>)
            \o PostOrder(Tail(entries), name)

\* C11: the auxiliaries are the definitions of the Object-valued fields in
\* depth-first post-order, taken in textual order; the primary definition is
\* not among them and is emitted before all of them.
C11_AuxiliariesPostOrder ==
    /\ Generated =>
          /\ [i \in 1..Len(all_structs) |-> Signature(all_structs[i])]
                = PostOrder(parsed.content, <<parsed.struct_name>>)
          /\ \A i \in 1..Len(all_structs) : all_structs[i] # main_struct
    /\ pc \in {"emitted", "initialized"} =>
          /\ output = <<main_struct>> \o all_structs
          /\ Head(output).name = <<written.struct_name>>

\* an emitted invocation whose first object holds a nested object and is
\* followed by a sibling object
C11_Witness ==
    /\ pc = "emitted"
    /\ Len(all_structs) >= 3
    /\ \E i, j \in 1..Len(parsed.content) :
          /\ i < j
          /\ parsed.content[i][2].k = "Object"
          /\ parsed.content[j][2].k = "Object"
          /\ \E n \in 1..Len(parsed.content[i][2].o) :
                parsed.content[i][2].o[n][2].k = "Object"

====
